---- MODULE Spec2Model ----
(***************************************************************************)
(* The playback session controller of the VideoPlayer component.           *)
(*                                                                         *)
(* The repository holds the component twice: src/components/VideoPlayer.tsx*)
(* (variant "tsx") and an older copy, src/unnamed/part_000 (variant        *)
(* "part0").  They differ in safePlay's catch block, in the callers of     *)
(* safePlay and in the mute state.  variant is fixed by Init and every     *)
(* operator below branches on it where the two files differ.               *)
(*                                                                         *)
(* JavaScript is single-threaded: a task (a DOM event, a timer, an engine  *)
(* event, the settlement of a play promise) runs to completion and then    *)
(* the microtask queue is drained before the next task starts.  A task is  *)
(* one action; every continuation after an await is one microtask action,  *)
(* and no task is enabled while microQ is not empty.                       *)
(***************************************************************************)
EXTENDS Integers, Sequences, FiniteSets, TLC

VARIABLES
    variant,         \* "tsx" | "part0": which copy of the component runs
    platform,        \* the branch initPlayer takes in this browser: "hls" when
                     \* Hls.isSupported(), else "native" when the sink can play
                     \* 'application/vnd.apple.mpegurl', else "none"
    mounted,         \* the component is mounted (videoRef.current is the element)
    hlsReady,        \* useState(false): window.Hls was detected
    src,             \* the src prop of the latest render
    engines,         \* every Hls instance constructed so far, in order
    hlsRef,          \* hlsRef.current: index into engines, 0 for null
    plays,           \* every promise video.play() returned so far, in order
    playPromiseRef,  \* playPromiseRef.current: index into plays, 0 for null
    waiters,         \* per play promise: the continuations awaiting it, in order
    microQ,          \* the microtask queue
    paused,          \* video.paused
    muted,           \* video.muted
    videoSrc,        \* video.src as set by the native fallback, 0 when unset
    metaListeners,   \* number of registered 'loadedmetadata' listeners
    isPlaying,       \* useState(false)
    isMuted,         \* useState(true) (variant tsx only)
    showControls,    \* useState(true)
    isBuffering,     \* useState(true)
    timers,          \* the pending setTimeout callbacks of the hide timer: for each
                     \* the time units left, and whether controlsTimeoutRef.current
                     \* holds its id
    sinceActivity,   \* time units since handleActivity() last ran, up to Delay
    ev,              \* the task or microtask that ran last
    out              \* the calls that step made on the engine, the sink and the console

vars == <<variant, platform, mounted, hlsReady, src, engines, hlsRef,
          plays, playPromiseRef, waiters, microQ, paused, muted, videoSrc,
          metaListeners, isPlaying, isMuted, showControls, isBuffering,
          timers, sinceActivity, ev, out>>

env == <<variant, platform>>

(* ------------------------------ bounds -------------------------------- *)

\* Hls instances constructed in one run.
MaxEngines == 2
\* Promises video.play() returns in one run.
MaxPlays == 3
\* Continuations waiting (on a play promise or in the microtask queue) at once.
MaxPending == 3

\* The hide delay, in time units of 1000 ms.
Delay == 5

Urls == {1, 2}
ErrorTypes == {"NETWORK", "MEDIA", "OTHER"}

(* ------------------------------ helpers ------------------------------- *)

\* The component's mutable state as one record, so that handlers compose.
Cur ==
    [mounted |-> mounted, hlsReady |-> hlsReady, src |-> src, engines |-> engines,
     hlsRef |-> hlsRef, plays |-> plays, playPromiseRef |-> playPromiseRef,
     waiters |-> waiters, microQ |-> microQ, paused |-> paused, muted |-> muted,
     videoSrc |-> videoSrc, metaListeners |-> metaListeners,
     isPlaying |-> isPlaying, isMuted |-> isMuted, showControls |-> showControls,
     isBuffering |-> isBuffering, timers |-> timers,
     sinceActivity |-> sinceActivity,
     out |-> <<>>]

\* A settled promise that playPromiseRef no longer holds is garbage: nothing
\* can await it again, so its outcome is dropped.  (A continuation that was
\* awaiting it carries the outcome it resumes with.)
Collect(ps, ref) ==
    [p \in 1..Len(ps) |-> IF ps[p] # "pending" /\ p # ref THEN "settled" ELSE ps[p]]

Commit(t, e) ==
    /\ mounted' = t.mounted
    /\ hlsReady' = t.hlsReady
    /\ src' = t.src
    /\ engines' = t.engines
    /\ hlsRef' = t.hlsRef
    /\ plays' = Collect(t.plays, t.playPromiseRef)
    /\ playPromiseRef' = t.playPromiseRef
    /\ waiters' = t.waiters
    /\ microQ' = t.microQ
    /\ paused' = t.paused
    /\ muted' = t.muted
    /\ videoSrc' = t.videoSrc
    /\ metaListeners' = t.metaListeners
    /\ isPlaying' = t.isPlaying
    /\ isMuted' = t.isMuted
    /\ showControls' = t.showControls
    /\ isBuffering' = t.isBuffering
    /\ timers' = t.timers
    /\ sinceActivity' = IF \E i \in 1..Len(t.out) : t.out[i].call = "setTimeout"
                        THEN 0 ELSE t.sinceActivity
    /\ out' = t.out
    /\ ev' = e
    /\ UNCHANGED env

\* The step that ran: op names the handler, n its engine or promise, fatal and
\* type the error data, origin the caller of safePlay/safePause, res the
\* outcome the continuation resumes with.
Event(op, n, fatal, type, origin, res) ==
    [op |-> op, n |-> n, fatal |-> fatal, type |-> type, origin |-> origin, res |-> res]

Task(op) == Event(op, 0, FALSE, "", "", "")

Call(s, c, a) == [s EXCEPT !.out = Append(@, [call |-> c, arg |-> a])]

Calls(o, c) == {i \in 1..Len(o) : o[i].call = c}

(* --------------------------- promises, awaits -------------------------- *)

\* await p: the continuation runs in a later microtask, once p is settled.
Await(s, p, k, origin) ==
    IF s.plays[p] = "pending"
    THEN [s EXCEPT !.waiters[p] = Append(@, [k |-> k, origin |-> origin])]
    ELSE [s EXCEPT !.microQ = Append(@, [k |-> k, origin |-> origin, res |-> s.plays[p]])]

\* The async function called from `origin` has settled: its caller's
\* continuation (after `await`, or the .catch handler) is queued.
Return(s, origin, res) ==
    [s EXCEPT !.microQ = Append(@, [k |-> "caller", origin |-> origin, res |-> res])]

\* video.play(): a sink that is not allowed to play returns a promise that is
\* already rejected and stays paused; otherwise paused becomes false and the
\* promise is pending until the sink settles it.
videoPlay(s, allowed) ==
    Call([s EXCEPT !.plays = Append(@, IF allowed THEN "pending" ELSE "NotAllowedError"),
                   !.waiters = Append(@, <<>>),
                   !.paused = IF allowed THEN FALSE ELSE @],
         "play", Len(s.plays) + 1)

\* video.pause()
videoPause(s) == Call([s EXCEPT !.paused = TRUE], "pause", 0)

(* ------------------------- Playback Serializer ------------------------- *)

\* const promise = video.play(); playPromiseRef.current = promise; await promise
safePlayIssue(s, origin, allowed) ==
    LET t == videoPlay(s, allowed)
        p == Len(t.plays)
    IN  Await([t EXCEPT !.playPromiseRef = p], p, "own", origin)

\* VideoPlayer.tsx: the catch block clears the slot, logs what is neither an
\* abort nor a policy rejection, and rethrows.
safePlayCatchTsx(s, origin, err) ==
    LET t == [s EXCEPT !.playPromiseRef = 0]
        u == IF err \notin {"AbortError", "NotAllowedError"}
             THEN Call(t, "console.error", 0) ELSE t
    IN  Return(u, origin, err)

\* part_000: the catch block logs (an abort as a plain message, anything else
\* as an error), clears the slot and swallows the error.
safePlayCatchPart0(s, origin, err) ==
    LET t == IF err = "AbortError" THEN Call(s, "console.log", 0)
                                   ELSE Call(s, "console.error", 0)
    IN  Return([t EXCEPT !.playPromiseRef = 0], origin, "ok")

\* A catch block that rethrows without clearing the slot.
safePlayCatchKeepsSlot(s, origin, err) == Return(s, origin, err)

safePlayCatch(s, origin, err) ==
    IF variant = "tsx" THEN safePlayCatchTsx(s, origin, err)
                       ELSE safePlayCatchPart0(s, origin, err)

\* safePlay(), up to its first await (or to its end, without a sink).
safePlay(s, origin, allowed) ==
    IF ~s.mounted THEN Return(s, origin, "ok")
    ELSE IF s.playPromiseRef # 0 THEN Await(s, s.playPromiseRef, "prior", origin)
    ELSE safePlayIssue(s, origin, allowed)

\* safePlay() after `await playPromiseRef.current`: the await is inside the
\* try block, so a rejection of the prior promise lands in the catch block.
safePlayAfterPrior(s, origin, res, allowed) ==
    IF res = "ok" THEN safePlayIssue(s, origin, allowed)
                  ELSE safePlayCatch(s, origin, res)

\* safePlay() after `await promise`.
safePlayAfterOwn(s, origin, res) ==
    IF res = "ok" THEN Return([s EXCEPT !.playPromiseRef = 0], origin, "ok")
                  ELSE safePlayCatch(s, origin, res)

\* safePause(), up to its await (or to its end).
safePause(s, origin) ==
    IF ~s.mounted THEN Return(s, origin, "ok")
    ELSE IF s.playPromiseRef # 0 THEN Await(s, s.playPromiseRef, "pause", origin)
    ELSE Return(videoPause(s), origin, "ok")

\* safePause() after its await: the rejection is caught and ignored.
safePauseAfterPrior(s, origin, res) == Return(videoPause(s), origin, "ok")

(* ---------------------- Activity / Visibility Timer -------------------- *)

\* hideControlsAfterDelay() without its first line: the timer that
\* controlsTimeoutRef holds is not cleared.
hideControlsKeepsTimer(s) ==
    Call([s EXCEPT !.timers = {[left |-> x.left, cur |-> FALSE] : x \in @}
                              \cup {[left |-> Delay, cur |-> TRUE]}],
         "setTimeout", Delay)

\* if (controlsTimeoutRef.current) clearTimeout(controlsTimeoutRef.current);
\* controlsTimeoutRef.current = setTimeout(() => setShowControls(false), 5000)
hideControlsAfterDelay(s) ==
    Call([s EXCEPT !.timers = {x \in @ : ~x.cur} \cup {[left |-> Delay, cur |-> TRUE]}],
         "setTimeout", Delay)

handleActivity(s) == hideControlsAfterDelay([s EXCEPT !.showControls = TRUE])

(* ----------------------- Streaming Session Manager --------------------- *)

\* initPlayer() without lines 105-108: the previous engine is not destroyed.
initPlayerKeepsOld(s, cSrc, cReady) ==
    IF ~cReady \/ ~s.mounted THEN s
    ELSE
      LET e == Len(s.engines) + 1
      IN  IF platform = "hls"
          THEN Call(Call(Call(
                 [s EXCEPT !.engines = Append(@, [src |-> cSrc, destroyed |-> FALSE,
                                                  parsed |-> FALSE]),
                           !.hlsRef = e],
                 "new", e), "loadSource", cSrc), "attachMedia", e)
          ELSE IF platform = "native"
          THEN Call(Call([s EXCEPT !.videoSrc = cSrc, !.metaListeners = @ + 1],
                         "setSrc", cSrc), "addMetadataListener", 0)
          ELSE s

\* initPlayer() taking the native branch without asking canPlayType().
initPlayerAssumesNative(s, cSrc, cReady) ==
    IF ~cReady \/ ~s.mounted \/ platform = "hls" THEN s
    ELSE Call(Call([s EXCEPT !.videoSrc = cSrc, !.metaListeners = @ + 1],
                   "setSrc", cSrc), "addMetadataListener", 0)

\* initPlayer() as closed over by one render: cSrc and cReady are the src prop
\* and the hlsReady state of that render.
initPlayer(s, cSrc, cReady) ==
    IF ~cReady \/ ~s.mounted THEN s
    ELSE
      LET d == IF s.hlsRef # 0
               THEN Call([s EXCEPT !.engines[s.hlsRef].destroyed = TRUE, !.hlsRef = 0],
                         "destroy", s.hlsRef)
               ELSE s
          e == Len(d.engines) + 1
      IN  IF platform = "hls"
          THEN Call(Call(Call(
                 [d EXCEPT !.engines = Append(@, [src |-> cSrc, destroyed |-> FALSE,
                                                  parsed |-> FALSE]),
                           !.hlsRef = e],
                 "new", e), "loadSource", cSrc), "attachMedia", e)
          ELSE IF platform = "native"
          THEN Call(Call([d EXCEPT !.videoSrc = cSrc, !.metaListeners = @ + 1],
                         "setSrc", cSrc), "addMetadataListener", 0)
          ELSE d

\* Whether initPlayer(s, _, cReady) constructs an engine.
Constructs(s, cReady) == cReady /\ s.mounted /\ platform = "hls"

\* hls.on(MANIFEST_PARSED, () => safePlay().catch(...)) of engine e.
onManifestParsed(s, e, allowed) ==
    safePlay([s EXCEPT !.engines[e].parsed = TRUE], "manifest", allowed)

\* The error handler with the NETWORK case falling through to the default.
onErrorRecreatesOnNetwork(s, e, fatal, type) ==
    IF ~fatal THEN s
    ELSE LET w == IF variant = "part0" THEN Call(s, "console.warn", e) ELSE s
         IN  CASE type = "MEDIA" -> Call(w, "recoverMediaError", e)
               [] OTHER          -> initPlayer(w, s.engines[e].src, TRUE)

\* hls.on(ERROR, (_event, data) => ...) of engine e: hls and initPlayer are the
\* ones of the render that constructed e.
onError(s, e, fatal, type) ==
    IF ~fatal THEN s
    ELSE LET w == IF variant = "part0" THEN Call(s, "console.warn", e) ELSE s
         IN  CASE type = "NETWORK" -> Call(w, "startLoad", e)
               [] type = "MEDIA"   -> Call(w, "recoverMediaError", e)
               [] OTHER            -> initPlayer(w, s.engines[e].src, TRUE)

\* The 'loadedmetadata' listener of the native fallback: each registered
\* listener calls safePlay() and removes itself.
RECURSIVE onMetadata(_, _, _)
onMetadata(s, n, allowed) ==
    IF n = 0 THEN s
    ELSE onMetadata(safePlay([s EXCEPT !.metaListeners = @ - 1], "metadata", allowed),
                    n - 1, allowed)

(* --------------------- callers of safePlay/safePause ------------------- *)

\* togglePlay() after `await safePlay()` / `await safePause()`: a rejection
\* leaves the async handler with a rejected promise nobody handles.
togglePlayAfter(s, res) ==
    IF res = "ok" THEN handleActivity(s) ELSE Call(s, "unhandledrejection", 0)

\* VideoPlayer.tsx: safePlay().catch(() => setShowControls(true)), from the
\* manifest-parsed handler and from the metadata listener.
autoPlayCatchTsx(s, res) ==
    IF res = "ok" THEN s ELSE [s EXCEPT !.showControls = TRUE]

\* part_000, manifest-parsed: safePlay().catch(() => { video.muted = true; safePlay(); })
manifestCatchPart0(s, res, allowed) ==
    IF res = "ok" THEN s ELSE safePlay([s EXCEPT !.muted = TRUE], "retry", allowed)

\* A safePlay() whose promise has no handler (part_000: the metadata
\* listener's call and the retry).
noCatch(s, res) ==
    IF res = "ok" THEN s ELSE Call(s, "unhandledrejection", 0)

callerAfter(s, origin, res, allowed) ==
    CASE origin = "toggle" -> togglePlayAfter(s, res)
      [] origin = "manifest" /\ variant = "tsx" -> autoPlayCatchTsx(s, res)
      [] origin = "manifest" /\ variant = "part0" -> manifestCatchPart0(s, res, allowed)
      [] origin = "metadata" /\ variant = "tsx" -> autoPlayCatchTsx(s, res)
      [] OTHER -> noCatch(s, res)

(* --------------------------- sink listeners ---------------------------- *)

onPlay(s) == [s EXCEPT !.isPlaying = TRUE, !.isBuffering = FALSE]
onPause(s) == [s EXCEPT !.isPlaying = FALSE]
onWaiting(s) == [s EXCEPT !.isBuffering = TRUE]
\* A 'playing' listener that does what the 'play' listener does.
onPlayingSetsIsPlaying(s) == [s EXCEPT !.isPlaying = TRUE, !.isBuffering = FALSE]
onPlaying(s) == [s EXCEPT !.isBuffering = FALSE]
\* setIsMuted(video.muted || video.volume === 0): nothing sets the volume, which
\* stays at the element's default of 1.  Registered by VideoPlayer.tsx only.
onVolumeChange(s) == IF variant = "tsx" THEN [s EXCEPT !.isMuted = s.muted] ELSE s

SinkEvents == {"play", "pause", "waiting", "playing", "volumechange"}

onSinkEvent(s, name) ==
    CASE name = "play" -> onPlay(s)
      [] name = "pause" -> onPause(s)
      [] name = "waiting" -> onWaiting(s)
      [] name = "playing" -> onPlaying(s)
      [] OTHER -> onVolumeChange(s)

(* ------------------------------ intents -------------------------------- *)

\* togglePlay(), up to its await.
togglePlay(s, allowed) ==
    IF ~s.mounted THEN s
    ELSE IF s.paused THEN safePlay(s, "toggle", allowed)
    ELSE safePause(s, "toggle")

\* A toggleMute() that sets isMuted from the intent, ahead of the sink.
toggleMuteSetsState(s) ==
    IF ~s.mounted THEN s
    ELSE handleActivity([s EXCEPT !.muted = ~@, !.isMuted = ~s.muted])

\* toggleMute() (VideoPlayer.tsx only)
toggleMute(s) ==
    IF ~s.mounted THEN s
    ELSE handleActivity([s EXCEPT !.muted = ~@])

\* refreshStream() with an initPlayer() that skips the hlsReady guard.
refreshStreamBeforeReady(s) == handleActivity(initPlayer(s, s.src, TRUE))

\* refreshStream() that leaves the session alone while a play is pending.
refreshStreamUnlessPlayPending(s) ==
    IF s.playPromiseRef # 0 THEN handleActivity(s)
    ELSE handleActivity(initPlayer(s, s.src, s.hlsReady))

\* refreshStream(): initPlayer is the one of the latest render.
refreshStream(s) == handleActivity(initPlayer(s, s.src, s.hlsReady))

(* ------------------------------- bounds -------------------------------- *)

\* Continuations not yet run.
Pending(s) ==
    Len(s.microQ)
    + Cardinality(UNION {{<<p, i>> : i \in 1..Len(s.waiters[p])} : p \in 1..Len(s.waiters)})

\* safePlay() calls that wait for a prior promise and may still call play().
NumPrior(s) ==
    Cardinality({i \in 1..Len(s.microQ) : s.microQ[i].k = "prior"})
    + Cardinality(UNION {{<<p, i>> : i \in {j \in 1..Len(s.waiters[p]) : s.waiters[p][j].k = "prior"}}
                         : p \in 1..Len(s.waiters)})

\* n more calls of safePlay()/safePause() fit the bounds.
RoomForCalls(s, n) ==
    /\ Pending(s) + n <= MaxPending
    /\ Len(s.plays) + NumPrior(s) + n <= MaxPlays

\* One more call of safePause(), which never calls play(), fits the bounds.
RoomForPause(s) == Pending(s) + 1 <= MaxPending

\* initPlayer(s, _, cReady) fits the bounds: one more engine, or one more
\* metadata listener (each listener is one more call of safePlay()).
RoomForInit(s, cReady) ==
    /\ Constructs(s, cReady) => Len(s.engines) < MaxEngines
    /\ (cReady /\ s.mounted /\ platform = "native") => s.metaListeners < MaxPending

Idle == microQ = <<>>

(* ------------------------------- actions ------------------------------- *)

\* checkHls() finds window.Hls: setHlsReady(true); the render that follows has a
\* new initPlayer, so the effect that depends on it runs initPlayer().
LibraryDetected ==
    /\ Idle /\ mounted /\ ~hlsReady
    /\ RoomForInit(Cur, TRUE)
    /\ Commit(initPlayer([Cur EXCEPT !.hlsReady = TRUE], src, TRUE), Task("checkHls"))

\* The embedding application passes another src: same effect, new closure.
SrcChange ==
    /\ Idle /\ mounted
    /\ RoomForInit(Cur, hlsReady)
    /\ \E u \in Urls \ {src} :
         Commit(initPlayer([Cur EXCEPT !.src = u], u, hlsReady), Task("srcChange"))

RefreshStream ==
    /\ Idle /\ mounted
    /\ RoomForInit(Cur, hlsReady)
    /\ Commit(refreshStream(Cur), Task("refreshStream"))

TogglePlay ==
    /\ Idle /\ mounted
    /\ IF paused THEN RoomForCalls(Cur, 1) ELSE RoomForPause(Cur)
    /\ \E allowed \in BOOLEAN : Commit(togglePlay(Cur, allowed), Task("togglePlay"))

ToggleMute ==
    /\ Idle /\ mounted /\ variant = "tsx"
    /\ Commit(toggleMute(Cur), Task("toggleMute"))

\* A click or a mouse move on the container.
HandleActivity ==
    /\ Idle /\ mounted
    /\ Commit(handleActivity(Cur), Task("handleActivity"))

\* One time unit passes: every timer whose delay has passed runs its callback,
\* setShowControls(false).  (Time is followed while a timer is pending or the
\* last interaction is less than Delay ago.)
Tick ==
    /\ Idle /\ (timers # {} \/ sinceActivity < Delay)
    /\ Commit([Cur EXCEPT
                 !.timers = {[left |-> x.left - 1, cur |-> x.cur] : x \in {y \in @ : y.left > 1}},
                 !.showControls = IF \E x \in timers : x.left = 1 THEN FALSE ELSE @,
                 !.sinceActivity = IF @ < Delay THEN @ + 1 ELSE @],
              Task("tick"))

\* The current engine has parsed its manifest (once per loadSource).
ManifestParsed ==
    /\ Idle /\ hlsRef # 0 /\ ~engines[hlsRef].parsed
    /\ RoomForCalls(Cur, 1)
    /\ \E allowed \in BOOLEAN :
         Commit(onManifestParsed(Cur, hlsRef, allowed),
                Event("manifestParsed", hlsRef, FALSE, "", "", ""))

\* The current engine reports an error.
EngineError ==
    /\ Idle /\ hlsRef # 0
    /\ \E fatal \in BOOLEAN, type \in ErrorTypes :
         /\ (fatal /\ type = "OTHER") => RoomForInit(Cur, TRUE)
         /\ Commit(onError(Cur, hlsRef, fatal, type),
                   Event("error", hlsRef, fatal, type, "", ""))

\* The sink fires 'loadedmetadata' (native fallback).
LoadedMetadata ==
    /\ Idle /\ mounted /\ videoSrc # 0 /\ metaListeners > 0
    /\ RoomForCalls(Cur, metaListeners)
    /\ \E allowed \in BOOLEAN :
         Commit(onMetadata(Cur, metaListeners, allowed), Task("loadedmetadata"))

\* The sink fires one of the lifecycle events the effect listens to.
SinkEvent ==
    /\ Idle /\ mounted
    /\ \E name \in SinkEvents :
         Commit(onSinkEvent(Cur, name), Event("sink", 0, FALSE, name, "", ""))

\* The sink settles a pending play promise: the continuations awaiting it are
\* queued in the order in which they started to wait.
SettlePlay ==
    /\ Idle
    /\ \E p \in 1..Len(plays), res \in {"ok", "AbortError", "Error"} :
         /\ plays[p] = "pending"
         /\ Commit([Cur EXCEPT !.plays[p] = res,
                               !.waiters[p] = <<>>,
                               !.microQ = [i \in 1..Len(waiters[p]) |->
                                             [k |-> waiters[p][i].k,
                                              origin |-> waiters[p][i].origin,
                                              res |-> res]]],
                   Event("settle", p, FALSE, "", "", res))

\* The next microtask runs.
Microtask ==
    /\ microQ # <<>>
    /\ LET m == Head(microQ)
           s == [Cur EXCEPT !.microQ = Tail(@)]
       IN  \E allowed \in BOOLEAN :
             Commit(CASE m.k = "prior" -> safePlayAfterPrior(s, m.origin, m.res, allowed)
                      [] m.k = "own" -> safePlayAfterOwn(s, m.origin, m.res)
                      [] m.k = "pause" -> safePauseAfterPrior(s, m.origin, m.res)
                      [] OTHER -> callerAfter(s, m.origin, m.res, allowed),
                    Event(m.k, 0, FALSE, "", m.origin, m.res))

\* The component unmounts: the effects' cleanups run (the sink listeners are
\* removed, the hide timer is cleared) and videoRef.current becomes null.
Unmount ==
    /\ Idle /\ mounted
    /\ Commit([Cur EXCEPT !.mounted = FALSE, !.timers = {x \in @ : ~x.cur}],
              Task("unmount"))

(* --------------------------- the specification ------------------------- *)

\* The state after the first render and its effects: initPlayer() has returned
\* at its guard (hlsReady is false) and the sink listeners are registered.
Init ==
    /\ variant \in {"tsx", "part0"}
    /\ platform \in {"hls", "native", "none"}
    /\ mounted = TRUE
    /\ hlsReady = FALSE
    /\ src = 1
    /\ engines = <<>>
    /\ hlsRef = 0
    /\ plays = <<>>
    /\ playPromiseRef = 0
    /\ waiters = <<>>
    /\ microQ = <<>>
    /\ paused = TRUE
    /\ muted = (variant = "tsx")
    /\ videoSrc = 0
    /\ metaListeners = 0
    /\ isPlaying = FALSE
    /\ isMuted = TRUE
    /\ showControls = TRUE
    /\ isBuffering = TRUE
    /\ timers = {}
    /\ sinceActivity = Delay
    /\ ev = Task("mount")
    /\ out = <<>>

Next ==
    \/ LibraryDetected
    \/ SrcChange
    \/ RefreshStream
    \/ TogglePlay
    \/ ToggleMute
    \/ HandleActivity
    \/ ManifestParsed
    \/ EngineError
    \/ LoadedMetadata
    \/ SettlePlay
    \/ Microtask
    \/ Unmount

\* An engine that was destroyed delivers a manifest-parsed or an error event
\* all the same (hls.js removes its listeners in destroy(); an engine that is
\* only known by its interface may not).
StaleManifestParsed ==
    /\ Idle
    /\ RoomForCalls(Cur, 1)
    /\ \E e \in 1..Len(engines), allowed \in BOOLEAN :
         /\ engines[e].destroyed /\ ~engines[e].parsed
         /\ Commit(onManifestParsed(Cur, e, allowed),
                   Event("manifestParsed", e, FALSE, "", "", ""))

StaleEngineError ==
    /\ Idle
    /\ \E e \in 1..Len(engines), fatal \in BOOLEAN, type \in ErrorTypes :
         /\ engines[e].destroyed
         /\ (fatal /\ type = "OTHER") => RoomForInit(Cur, TRUE)
         /\ Commit(onError(Cur, e, fatal, type), Event("error", e, fatal, type, "", ""))

NextStale == Next \/ StaleManifestParsed \/ StaleEngineError

SpecStale == Init /\ [][NextStale]_vars

\* The session and the serializer under every task that reaches them.  The
\* clock and the sink's lifecycle events are left to the specifications below:
\* their handlers write isPlaying, isBuffering, isMuted and showControls only,
\* and no handler reads those four fields back.
Spec == Init /\ [][Next]_vars

\* The hide timer under the clock: every task that starts, cancels or outlives
\* the timer.  A new src prop and an engine error run initPlayer() as a refresh
\* does and never touch the timer; they are left to Spec.
NextClock ==
    \/ LibraryDetected
    \/ RefreshStream
    \/ TogglePlay
    \/ ToggleMute
    \/ HandleActivity
    \/ Tick
    \/ ManifestParsed
    \/ LoadedMetadata
    \/ SettlePlay
    \/ Microtask
    \/ Unmount

SpecClock == Init /\ [][NextClock]_vars

\* The sink's lifecycle events among the intents and the engine events, while
\* the component is mounted (the unmount removes the sink's listeners).
NextSink ==
    \/ LibraryDetected
    \/ RefreshStream
    \/ TogglePlay
    \/ ToggleMute
    \/ HandleActivity
    \/ ManifestParsed
    \/ EngineError
    \/ LoadedMetadata
    \/ SinkEvent
    \/ SettlePlay
    \/ Microtask

SpecSink == Init /\ [][NextSink]_vars

\* The whole view: the sink's events and the clock together.
NextView == NextSink \/ Tick \/ Unmount

SpecView == Init /\ [][NextView]_vars

\* Progress: the event loop runs every queued microtask, and the sink settles
\* every play promise it returned.
\* The serializer with every caller of safePlay() and safePause().
NextSerial ==
    \/ LibraryDetected
    \/ RefreshStream
    \/ TogglePlay
    \/ ManifestParsed
    \/ LoadedMetadata
    \/ SettlePlay
    \/ Microtask
    \/ Unmount

SpecLive ==
    Init /\ [][NextSerial]_vars /\ WF_vars(Microtask) /\ WF_vars(SettlePlay)

(* ============================== the claims ============================= *)

Pendings == {p \in 1..Len(plays) : plays[p] = "pending"}

Live == {e \in 1..Len(engines) : ~engines[e].destroyed}

EngineCallNames == {"destroy", "new", "loadSource", "attachMedia", "startLoad", "recoverMediaError"}

\* The calls a step made on engines, in order.
EngineCalls(o) == SelectSeq(o, LAMBDA c : c.call \in EngineCallNames)

ViewState == <<isPlaying, isBuffering, isMuted, showControls>>

\* C1: the sink's pause() is never invoked while a play() promise issued
\* earlier to that sink is still unsettled.
C1_PauseNeverRacesPlay == Calls(out, "pause") # {} => Pendings = {}

\* C2: at every instant at most one play() promise of the sink is unsettled,
\* and whenever one is unsettled playPromiseRef holds exactly that promise.
C2_OnePendingPlayInSlot ==
    /\ Cardinality(Pendings) <= 1
    /\ \A p \in Pendings : playPromiseRef = p

\* C3: a safePlay() that waited for a prior play promise which then rejects
\* still issues its own play() and records it as the pending play.
C3_WaitingPlaySurvivesRejection ==
    (ev.op = "prior" /\ ev.res # "ok") =>
        /\ Calls(out, "play") # {}
        /\ playPromiseRef = Len(plays)

\* The last step was an event of a destroyed engine.
StaleEvent(e) == ev.op \in {"manifestParsed", "error"} /\ ev.n = e /\ engines[e].destroyed

\* C4: an event delivered by an engine that a refresh or recreate has
\* discarded has no effect: no engine is destroyed or created, no engine
\* capability is invoked, safePlay() is not called and the view state is
\* unchanged.
C4_StaleEngineEventsIgnored ==
    [][(\E e \in 1..Len(engines) : engines[e].destroyed /\ StaleEvent(e)') =>
          /\ Len(engines') = Len(engines)
          /\ hlsRef' = hlsRef
          /\ \A e \in 1..Len(engines) : engines'[e].destroyed = engines[e].destroyed
          /\ EngineCalls(out') = <<>>
          /\ plays' = plays /\ waiters' = waiters /\ microQ' = microQ
          /\ ViewState' = ViewState]_vars

\* C5: at most one engine that was created and not destroyed exists, it is
\* the one hlsRef holds, and a step that constructs an engine has destroyed
\* the previous one before.
C5_AtMostOneLiveEngine ==
    /\ Cardinality(Live) <= 1
    /\ \A e \in Live : hlsRef = e
    /\ \A i \in Calls(out, "new") :
         /\ \A j \in Calls(out, "destroy") : j < i
         /\ \A e \in 1..(out[i].arg - 1) : engines[e].destroyed

\* C5 witness: a step replaced a live engine by a new one.
C5_Witness ==
    /\ Calls(out, "destroy") # {} /\ Calls(out, "new") # {}
    /\ Len(engines) >= 2 /\ hlsRef = Len(engines) /\ Live = {hlsRef}

\* C6: a fatal error of the current engine that is neither NETWORK nor MEDIA
\* destroys that engine exactly once and then creates exactly one new engine,
\* loaded with the same manifest URL, attached, and current.
C6_FatalOtherRecreates ==
    (ev.op = "error" /\ ev.fatal /\ ev.type = "OTHER") =>
        /\ EngineCalls(out) = << [call |-> "destroy", arg |-> ev.n],
                                 [call |-> "new", arg |-> Len(engines)],
                                 [call |-> "loadSource", arg |-> engines[ev.n].src],
                                 [call |-> "attachMedia", arg |-> Len(engines)] >>
        /\ engines[ev.n].destroyed
        /\ hlsRef = Len(engines) /\ hlsRef # ev.n
        /\ ~engines[hlsRef].destroyed

\* What the error handler may call for an error that must not recreate.
RecoveryCalls(e, fatal, type) ==
    IF fatal /\ type = "NETWORK" THEN << [call |-> "startLoad", arg |-> e] >>
    ELSE IF fatal /\ type = "MEDIA" THEN << [call |-> "recoverMediaError", arg |-> e] >>
    ELSE <<>>

\* C7: a fatal NETWORK error only calls startLoad() on the engine, a fatal
\* MEDIA error only recoverMediaError(), a non-fatal error nothing; none
\* destroys or creates an engine, changes hlsRef or changes the playback state.
C7_RecoverableErrorsKeepSession ==
    [][(ev'.op = "error" /\ ~(ev'.fatal /\ ev'.type = "OTHER")) =>
          /\ EngineCalls(out') = RecoveryCalls(ev'.n, ev'.fatal, ev'.type)
          /\ Calls(out', "play") = {} /\ Calls(out', "pause") = {}
          /\ engines' = engines /\ hlsRef' = hlsRef
          /\ ViewState' = ViewState
          /\ <<plays, playPromiseRef, waiters, microQ, paused, muted>>'
               = <<plays, playPromiseRef, waiters, microQ, paused, muted>>]_vars

\* C7 witness: the current engine, with a play pending, reported a fatal
\* NETWORK error and was told to resume loading.
C7_Witness ==
    /\ ev.op = "error" /\ ev.fatal /\ ev.type = "NETWORK" /\ ev.n = hlsRef
    /\ Calls(out, "startLoad") # {}
    /\ Pendings # {}

\* refreshStream() took the full path: the engine that was current is
\* destroyed and a new one is constructed, loaded, attached and current.
FullRecreate ==
    /\ hlsRef # 0 => engines'[hlsRef].destroyed /\ Calls(out', "destroy") # {}
    /\ Len(engines') = Len(engines) + 1
    /\ hlsRef' = Len(engines') /\ Live' = {hlsRef'}
    /\ engines'[hlsRef'].src = src
    /\ EngineCalls(out') # <<>>
    /\ LET n == Len(EngineCalls(out'))
       IN  /\ n >= 3
           /\ EngineCalls(out')[n - 2] = [call |-> "new", arg |-> hlsRef']
           /\ EngineCalls(out')[n - 1] = [call |-> "loadSource", arg |-> src]
           /\ EngineCalls(out')[n] = [call |-> "attachMedia", arg |-> hlsRef']

\* C8 as stated: refreshStream() takes the full destroy-and-recreate path in
\* every state in which it can be invoked, the one before the streaming
\* library is detected included.
C8_RefreshAlwaysRecreates ==
    [][ev'.op = "refreshStream" => FullRecreate]_vars

\* C8, amended: refreshStream() takes the full destroy-and-recreate path in
\* every state in which the streaming library has been detected and the
\* engine is supported (engine attached, play promise pending, after an
\* error); before the library is detected, or without engine support, it
\* constructs no engine.
C8_RefreshRecreatesOnceReady ==
    [][ev'.op = "refreshStream" =>
          IF hlsReady /\ platform = "hls"
          THEN FullRecreate
          ELSE engines' = engines /\ hlsRef' = hlsRef /\ EngineCalls(out') = <<>>]_vars

\* C8 witness: a refresh, made while a play promise was pending, replaced the
\* current engine.
C8_Witness ==
    /\ ev.op = "refreshStream" /\ Pendings # {} /\ playPromiseRef # 0
    /\ Len(engines) >= 2 /\ hlsRef = Len(engines)
    /\ engines[hlsRef - 1].destroyed /\ ~engines[hlsRef].destroyed

\* C9: once the player is unmounted no engine is live.
C9_UnmountDestroysEngine == ~mounted => Live = {}

\* C10: when the play promise of the safePlay() made for manifest-parsed is
\* rejected by autoplay policy, the caller mutes the sink and calls safePlay()
\* again (which, the slot being clear, calls play() at once).
C10_PolicyRejectionMutesAndRetries ==
    [][(/\ ev.op = "own" /\ ev.origin = "manifest" /\ ev.res = "NotAllowedError"
        /\ microQ # <<>> /\ Head(microQ).k = "caller" /\ Head(microQ).origin = "manifest")
       => (muted' /\ Calls(out', "play") # {})]_vars

\* The last step was safePlay()'s continuation seeing its own play() rejected
\* by autoplay policy, and the continuation of the caller `origin` runs next.
PolicyRejected(origin) ==
    /\ ev.op = "own" /\ ev.origin = origin /\ ev.res = "NotAllowedError"
    /\ microQ # <<>> /\ Head(microQ).k = "caller" /\ Head(microQ).origin = origin

\* C11: when the automatic play (made for manifest-parsed, or for
\* loadedmetadata in the native fallback) is rejected by autoplay policy, the
\* caller either retries or forces showControls to true; when the retry is
\* rejected as well, showControls is forced to true.
C11_FailedAutoplayShowsControls ==
    [][/\ (PolicyRejected("manifest") \/ PolicyRejected("metadata"))
            => (Calls(out', "play") # {} \/ showControls')
       /\ (ev.op = "own" /\ ev.origin = "retry" /\ ev.res # "ok"
           /\ microQ # <<>> /\ Head(microQ).k = "caller" /\ Head(microQ).origin = "retry")
            => showControls']_vars

\* C12: no step leaves a rejected promise without a handler: togglePlay()
\* never ends rejected, and every promise of safePlay() that rejects is
\* handled by its caller, whatever the outcome of the sink's play promise.
C12_NoUnhandledPlayFailure == Calls(out, "unhandledrejection") = {}

\* C13: a step that handles a play promise settled with AbortError (the
\* settlement itself, or a continuation resumed with it) writes nothing to the
\* error log and leaves isPlaying, isBuffering, isMuted and showControls as
\* they were; and isPlaying changes only in the handler of the sink's play or
\* pause event.
C13_AbortIsSilent ==
    [][/\ ev'.res = "AbortError"
            => (Calls(out', "console.error") = {} /\ ViewState' = ViewState)
       /\ isPlaying' # isPlaying
            => (ev'.op = "sink" /\ ev'.type \in {"play", "pause"})]_vars

\* C14: when the sink settles every play promise, every call of safePlay() and
\* safePause() that is waiting (on a play promise or in the microtask queue)
\* completes; and once every issued play promise has settled and the
\* continuations have run, playPromiseRef is null, so that a later call finds
\* either no promise or a pending one in the slot.
C14_CallsCompleteAndSlotClears ==
    /\ (Pending(Cur) > 0) ~> (Pending(Cur) = 0)
    /\ [](Idle => (playPromiseRef = 0 \/ plays[playPromiseRef] = "pending"))
    /\ []((Idle /\ Pendings = {}) => playPromiseRef = 0)

\* C14 witness: two play promises were issued, the last one failed, every
\* continuation has run and the slot is empty.
C14_Witness ==
    /\ Idle /\ Len(plays) >= 2 /\ Pendings = {} /\ playPromiseRef = 0
    /\ ev.op = "caller" /\ ev.res = "Error"

\* C15: every step in which handleActivity() runs leaves showControls true
\* and exactly one countdown pending, of the full delay (the earlier one is
\* cancelled); showControls turns false only when the clock reaches Delay time
\* units after the most recent handleActivity(), and, while the component is
\* mounted, it is false at that instant; at most one countdown is pending.
C15_HideExactlyDelayAfterActivity ==
    [][/\ Calls(out', "setTimeout") # {}
            => (showControls' /\ timers' = {[left |-> Delay, cur |-> TRUE]})
       /\ (showControls /\ ~showControls')
            => (ev'.op = "tick" /\ sinceActivity = Delay - 1 /\ sinceActivity' = Delay)
       /\ (mounted /\ ev'.op = "tick" /\ sinceActivity = Delay - 1) => ~showControls'
       /\ Cardinality(timers') <= 1]_vars

\* C15 witness: the timer has just hidden the controls of the mounted
\* component, Delay time units after the last interaction.
C15_Witness ==
    /\ mounted /\ ev.op = "tick" /\ ~showControls
    /\ sinceActivity = Delay /\ timers = {}

\* C16: once the component is unmounted no hide timer is pending, and no step
\* taken after the unmount writes showControls, the continuations of a
\* togglePlay() or of an automatic safePlay() that was awaiting a play promise
\* at the unmount included.
C16_NothingAfterTeardown ==
    [][/\ ~mounted' => timers' = {}
       /\ ~mounted => showControls' = showControls]_vars

\* C17: isPlaying, isBuffering and isMuted change only in the listeners of the
\* sink's events: isPlaying in those of play and pause, isBuffering in those
\* of play, waiting and playing, isMuted in that of volumechange.  No intent and
\* no engine event changes them.
C17_PlaybackStateFromSinkOnly ==
    [][/\ isPlaying' # isPlaying => (ev'.op = "sink" /\ ev'.type \in {"play", "pause"})
       /\ isBuffering' # isBuffering
            => (ev'.op = "sink" /\ ev'.type \in {"play", "waiting", "playing"})
       /\ isMuted' # isMuted => (ev'.op = "sink" /\ ev'.type = "volumechange")]_vars

\* C17 witness: the user has started playback and unmuted the sink, and until
\* the sink emits its events isPlaying is still false and isMuted still true.
C17_Witness ==
    /\ ev.op = "toggleMute" /\ ~muted /\ isMuted
    /\ ~paused /\ ~isPlaying

\* What the waiting and playing listeners must leave alone.
BufferingFrame ==
    <<isPlaying, isMuted, showControls, timers, engines, hlsRef, plays,
      playPromiseRef, waiters, microQ, paused, muted, videoSrc, metaListeners>>

\* C18: the sink's waiting event sets isBuffering to true and its playing
\* event sets it to false (so waiting followed by playing takes isBuffering
\* from true to false), and neither event changes isPlaying, isMuted,
\* showControls, the engines, hlsRef, the play promises or playPromiseRef.
C18_BufferingFollowsSink ==
    [][/\ (ev'.op = "sink" /\ ev'.type = "waiting")
            => (isBuffering' /\ BufferingFrame' = BufferingFrame)
       /\ (ev'.op = "sink" /\ ev'.type = "playing")
            => (~isBuffering' /\ BufferingFrame' = BufferingFrame)
       /\ (ev.op = "sink" /\ ev.type = "waiting" /\ ev'.op = "sink" /\ ev'.type = "playing")
            => (isBuffering /\ ~isBuffering')]_vars

\* C18 witness: the sink, paused in the view's eyes, with an engine attached
\* and a play promise pending, has emitted playing after isBuffering was true.
C18_Witness ==
    /\ ev.op = "sink" /\ ev.type = "playing" /\ ~isBuffering /\ ~isPlaying
    /\ hlsRef # 0 /\ playPromiseRef # 0 /\ Pendings # {}

\* C19: where neither the engine nor native playback is supported, no engine
\* is ever constructed, the sink's src is never set, no metadata listener is
\* registered and no engine capability is invoked, by the initialization or by
\* any refreshStream(); no automatic play happens: play() is called only for
\* the user's togglePlay().
C19_UnsupportedPlatformIsInert ==
    platform = "none" =>
        /\ engines = <<>> /\ hlsRef = 0 /\ videoSrc = 0 /\ metaListeners = 0
        /\ EngineCalls(out) = <<>>
        /\ Calls(out, "setSrc") = {} /\ Calls(out, "addMetadataListener") = {}
        /\ ev.op \notin {"manifestParsed", "loadedmetadata", "error"}
        /\ Calls(out, "play") # {} => (ev.op = "togglePlay" \/ ev.origin = "toggle")

\* C19 witness: on such a platform the library was detected, the src prop
\* changed and the user has just refreshed the stream.
C19_Witness ==
    /\ platform = "none" /\ hlsReady /\ src = 2
    /\ ev.op = "refreshStream" /\ timers # {}

\* Calls of safePlay()/safePause() made from `origin` that have not returned
\* to their caller yet; every call adds one.
NumOrigin(s, origin) ==
    Cardinality({i \in 1..Len(s.microQ) : s.microQ[i].origin = origin})
    + Cardinality(UNION {{<<p, i>> : i \in {j \in 1..Len(s.waiters[p]) :
                                              s.waiters[p][j].origin = origin}}
                         : p \in 1..Len(s.waiters)})

\* C20: in the native fallback no engine is ever constructed, every
\* initialization sets the sink's src to the manifest URL, and a
\* loadedmetadata event makes exactly one call of safePlay(), after which no
\* metadata listener is left, however many times refreshStream() ran before
\* the event.
C20_NativeFallbackPlaysOnce ==
    [][platform = "native" =>
          /\ engines' = <<>> /\ hlsRef' = 0 /\ EngineCalls(out') = <<>>
          /\ (ev'.op \in {"checkHls", "srcChange", "refreshStream"} /\ hlsReady')
               => (videoSrc' = src' /\ Calls(out', "setSrc") # {})
          /\ ev'.op = "loadedmetadata"
               => /\ NumOrigin(Cur', "metadata") = NumOrigin(Cur, "metadata") + 1
                  /\ metaListeners' = 0]_vars

\* Calls of safePlay() and safePause() that wait for a play promise before
\* they issue their own play() or pause().
WaitingCalls(s) ==
    UNION {{<<p, i>> : i \in {j \in 1..Len(s.waiters[p]) :
                                 s.waiters[p][j].k \in {"prior", "pause"}}}
           : p \in 1..Len(s.waiters)}

\* C21: a call of safePlay() or safePause() that issues its play() or pause()
\* in the task that makes the call does so only when no earlier call is still
\* waiting to issue its own; so the sink receives the requests in the order of
\* the calls.
C21_RequestsReachSinkInCallOrder ==
    [][(/\ ev'.op \in {"togglePlay", "manifestParsed", "loadedmetadata"}
        /\ Calls(out', "play") \cup Calls(out', "pause") # {})
       => WaitingCalls(Cur) = {}]_vars

\* C22: when a togglePlay() of the mounted player completes (its continuation
\* after `await safePlay()` or `await safePause()` has run), whatever the
\* await resumed with, showControls is true and the hide countdown has been
\* restarted with the full delay.
C22_TogglePlayRegistersActivity ==
    [][(ev'.op = "caller" /\ ev'.origin = "toggle" /\ mounted')
       => /\ showControls'
          /\ timers' = {[left |-> Delay, cur |-> TRUE]}
          /\ sinceActivity' = 0]_vars

\* While hlsReady is false after a step, the session is untouched: no engine,
\* no src on the sink, no metadata listener, no engine call, and no play()
\* other than the one the user asked for with togglePlay().
UntouchedBeforeReady ==
    ~hlsReady' =>
        /\ engines' = <<>> /\ hlsRef' = 0 /\ videoSrc' = 0 /\ metaListeners' = 0
        /\ EngineCalls(out') = <<>> /\ Calls(out', "setSrc") = {}
        /\ Calls(out', "play") # {} => (ev'.op = "togglePlay" \/ ev'.origin = "toggle")

\* The step that detects the library constructs the first engine, loads the
\* src prop into it, attaches it and makes it current.
DetectionCreatesOneEngine ==
    ev'.op = "checkHls" =>
        /\ Len(engines') = 1 /\ hlsRef' = 1
        /\ engines'[1].src = src /\ ~engines'[1].destroyed
        /\ EngineCalls(out') = << [call |-> "new", arg |-> 1],
                                  [call |-> "loadSource", arg |-> src],
                                  [call |-> "attachMedia", arg |-> 1] >>

\* C23 as stated: until the library is detected nothing is created, set or
\* played by initPlayer() or refreshStream(); the detection creates and
\* attaches exactly one engine without user action, on every platform; and
\* hlsReady never reverts to false.
C23_DetectionAlwaysCreatesEngine ==
    [][/\ UntouchedBeforeReady
       /\ DetectionCreatesOneEngine
       /\ hlsReady => hlsReady']_vars

\* C23, amended: as stated where the engine is supported; where it is not,
\* the detection constructs no engine.
C23_DetectionCreatesEngineIfSupported ==
    [][/\ UntouchedBeforeReady
       /\ IF platform = "hls" THEN DetectionCreatesOneEngine
          ELSE ev'.op = "checkHls" => (engines' = <<>> /\ hlsRef' = 0)
       /\ hlsReady => hlsReady']_vars

\* C23 witness: the user had clicked play before the library was detected;
\* the detection has just constructed the first engine.
C23_Witness ==
    /\ platform = "hls" /\ ev.op = "checkHls" /\ hlsReady
    /\ Len(engines) = 1 /\ hlsRef = 1
    /\ Len(plays) >= 1 /\ timers # {}

====
